---- MODULE Spec2Model ----
(***************************************************************************)
(* Model of the in-memory repository of the todo-list application          *)
(* (src/src/repositories/memory_repository.py) together with the data      *)
(* classes Project and Task.  Every public method of InMemoryRepository    *)
(* is one action; the outcome of the call (value returned or exception     *)
(* raised) is recorded in the variables ret, ret_projects and ret_tasks.   *)
(* The interactive menu (src/src/main.py, src/src/cli/cli.py) is modelled  *)
(* on top of the repository: one action per choice of a menu, which is the *)
(* whole handler of the choice with its prompts and its repository call.   *)
(***************************************************************************)
EXTENDS Integers, Sequences, FiniteSets, TLC

VARIABLES MAX_NUMBER_OF_PROJECT, MAX_NUMBER_OF_TASK,
          projects, next_project_id, next_task_id,
          ret, ret_projects, ret_tasks,
          issued_project_ids, issued_task_ids,
          pc, menu_project, display

\* MAX_NUMBER_OF_PROJECT, MAX_NUMBER_OF_TASK: the maxima configured in the
\*   environment variables of these names, fixed when the process starts
\* projects, next_project_id, next_task_id: the fields of InMemoryRepository
\* ret: the last call and the exception it raised; ret_projects, ret_tasks:
\*   what it returned (a Project or Task as a list of one element)
\* issued_project_ids: history, the ids add_project assigned, in order
\* issued_task_ids: history, the ids add_task assigned
\* pc: where the interactive program is: "main_menu", "task_menu", "exited"
\*   (sys.exit(0)), "crashed" (an exception left main_menu_loop), or
\*   "no_menu" when the repository is called directly
\* menu_project: the id of the project held by project_task_menu, else 0
\* display: the last message the program printed
env == <<MAX_NUMBER_OF_PROJECT, MAX_NUMBER_OF_TASK>>
repo == <<projects, next_project_id, next_task_id>>
menu == <<pc, menu_project, display>>
vars == <<MAX_NUMBER_OF_PROJECT, MAX_NUMBER_OF_TASK,
          projects, next_project_id, next_task_id, ret, ret_projects,
          ret_tasks, issued_project_ids, issued_task_ids,
          pc, menu_project, display>>

----------------------------------------------------------------------------
(* Bounds of the model *)

\* largest project id the model lets add_project assign
MaxProjectId == 2
\* largest task id the model lets add_task assign
MaxTaskId == 2

(* Program constants *)
MAX_PROJECT_NAME == 30
MAX_PROJECT_DESC == 150
MAX_TASK_TITLE == 30
MAX_TASK_DESC == 150
VALID_STATUSES == <<"todo", "doing", "done">>

----------------------------------------------------------------------------
(* Python values.  An argument that may be None is a sequence: <<>> is     *)
(* None and <<v>> is the value v.  Texts whose characters matter (the      *)
(* deadline) are sequences of one-character strings; the others are        *)
(* strings, of which the code uses only the length and equality.           *)

None == <<>>
Some(v) == <<v>>
IsNone(x) == x = <<>>
Val(x) == x[1]

Chars10 == "0123456789"
Chars30 == Chars10 \o Chars10 \o Chars10
Chars150 == Chars30 \o Chars30 \o Chars30 \o Chars30 \o Chars30

\* the exceptions a call can end with
NoError == "None"
ValidationError == "ValidationError"
TypeError == "TypeError"

\* messages of the exceptions raised by the repository (the sign for
\* "less than or equal" is written <= here)
MsgProjectLimit == "Maximum number of projects reached."
MsgProjectExists(name) == "Project name '" \o name \o "' already exists."
MsgProjectNameLen == "Project name must be <= 30 characters."
MsgProjectDescLen == "Project description must be <= 150 characters."
MsgProjectNotFound == "Project not found."
MsgTaskLimit == "Maximum number of tasks reached for this project."
MsgTaskTitleLen == "Task title must be <= 30 characters."
MsgTaskDescLen == "Task description must be <= 150 characters."
MsgInvalidStatus(status) == "Invalid status: " \o status
MsgDeadlineFormat == "Deadline must be in YYYY-MM-DD format."
MsgTaskNotFound == "Task not found."
MsgLenOfNone == "object of type 'NoneType' has no len()"

----------------------------------------------------------------------------
(* Data classes *)

Project(id, name, description, tasks) ==
    [id |-> id, name |-> name, description |-> description, tasks |-> tasks]

Task(id, title, description, status, deadline) ==
    [id |-> id, title |-> title, description |-> description,
     status |-> status, deadline |-> deadline]

\* the values of a dict, as a set
Values(d) == {d[k] : k \in DOMAIN d}

\* d with key k bound to v (d[k] = v on a dict)
DictSet(d, k, v) == [x \in (DOMAIN d) \cup {k} |-> IF x = k THEN v ELSE d[x]]

\* d without key k (del d[k])
DictDel(d, k) == [x \in (DOMAIN d) \ {k} |-> d[x]]

\* x in lst, for a list
InList(x, lst) == \E i \in 1..Len(lst) : lst[i] = x

----------------------------------------------------------------------------
(* datetime.strptime(deadline, "%Y-%m-%d").date()                          *)
(* The format compiles to the regular expression                           *)
(*   (\d\d\d\d)-(1[0-2]|0[1-9]|[1-9])-(3[01]|[12]\d|0[1-9]|[1-9]| [1-9])   *)
(* which must match the whole text; the fields must then form a date of    *)
(* the proleptic Gregorian calendar with year >= 1.  Any failure is a      *)
(* ValueError.                                                             *)

Digits == <<"0", "1", "2", "3", "4", "5", "6", "7", "8", "9">>
IsDigit(c) == \E i \in 1..10 : Digits[i] = c
DigitVal(c) == IF IsDigit(c) THEN (CHOOSE i \in 1..10 : Digits[i] = c) - 1 ELSE 0
IsDigit19(c) == IsDigit(c) /\ c # "0"

\* 1[0-2]|0[1-9]|[1-9]
MatchMonth(t) ==
    \/ Len(t) = 2 /\ t[1] = "1" /\ t[2] \in {"0", "1", "2"}
    \/ Len(t) = 2 /\ t[1] = "0" /\ IsDigit19(t[2])
    \/ Len(t) = 1 /\ IsDigit19(t[1])

\* 3[01]|[12]\d|0[1-9]|[1-9]| [1-9]
MatchDay(t) ==
    \/ Len(t) = 2 /\ t[1] = "3" /\ t[2] \in {"0", "1"}
    \/ Len(t) = 2 /\ t[1] \in {"1", "2"} /\ IsDigit(t[2])
    \/ Len(t) = 2 /\ t[1] = "0" /\ IsDigit19(t[2])
    \/ Len(t) = 1 /\ IsDigit19(t[1])
    \/ Len(t) = 2 /\ t[1] = " " /\ IsDigit19(t[2])

\* int() of a matched field
FieldVal(t) ==
    IF Len(t) = 1 THEN DigitVal(t[1])
    ELSE IF Len(t) = 2 THEN 10 * DigitVal(t[1]) + DigitVal(t[2])
    ELSE 1000 * DigitVal(t[1]) + 100 * DigitVal(t[2])
         + 10 * DigitVal(t[3]) + DigitVal(t[4])

IsLeap(year) == year % 4 = 0 /\ (year % 100 # 0 \/ year % 400 = 0)

DaysInMonth(year, month) ==
    IF month = 2 THEN (IF IsLeap(year) THEN 29 ELSE 28)
    ELSE IF month \in {4, 6, 9, 11} THEN 30 ELSE 31

\* the ways to cut s into year-month-day fields that the expression matches
DateSplits(s) ==
    {ml \in {1, 2} : \E dl \in {1, 2} :
        /\ Len(s) = 6 + ml + dl
        /\ \A i \in 1..4 : IsDigit(s[i])
        /\ s[5] = "-"
        /\ MatchMonth(SubSeq(s, 6, 5 + ml))
        /\ s[6 + ml] = "-"
        /\ MatchDay(SubSeq(s, 7 + ml, Len(s)))}

\* <<>> when strptime raises ValueError, otherwise <<the date>>
StrpDate(s) ==
    IF DateSplits(s) = {} THEN <<>>
    ELSE LET ml == CHOOSE m \in DateSplits(s) : TRUE
             year == FieldVal(SubSeq(s, 1, 4))
             month == FieldVal(SubSeq(s, 6, 5 + ml))
             day == FieldVal(SubSeq(s, 7 + ml, Len(s)))
         IN IF year >= 1 /\ day <= DaysInMonth(year, month)
            THEN <<[year |-> year, month |-> month, day |-> day]>>
            ELSE <<>>

----------------------------------------------------------------------------
(* Helpers of the operations *)

\* the sort in descending order of id
RECURSIVE SortByIdDescending(_)
SortByIdDescending(S) ==
    IF S = {} THEN <<>>
    ELSE LET m == CHOOSE p \in S : \A q \in S : p.id >= q.id
         IN <<m>> \o SortByIdDescending(S \ {m})

\* sorted(projects.values(), key=lambda p: p.id)
RECURSIVE SortById(_)
SortById(S) ==
    IF S = {} THEN <<>>
    ELSE LET m == CHOOSE p \in S : \A q \in S : p.id <= q.id
         IN <<m>> \o SortById(S \ {m})

\* next((t for t in tasks if t.id == task_id), None), as the position of
\* the task in the list, 0 for None
FindTask(tasks, task_id) ==
    IF \E i \in 1..Len(tasks) : tasks[i].id = task_id
    THEN CHOOSE i \in 1..Len(tasks) :
            /\ tasks[i].id = task_id
            /\ \A j \in 1..(i - 1) : tasks[j].id # task_id
    ELSE 0

\* list.pop() in place of list.remove(x): drops the last element
ListRemoveLast(lst, x) == SubSeq(lst, 1, Len(lst) - 1)

\* list.remove(x): drops the first element equal to x
ListRemove(lst, x) ==
    LET i == CHOOSE k \in 1..Len(lst) :
                 lst[k] = x /\ \A j \in 1..(k - 1) : lst[j] # x
    IN SubSeq(lst, 1, i - 1) \o SubSeq(lst, i + 1, Len(lst))

\* lst with the element at position i replaced by x
ListSet(lst, i, x) == [lst EXCEPT ![i] = x]

\* the call ends by raising exc(msg); nothing is returned and the
\* repository is as it was
Raise(op, exc, msg) ==
    /\ ret' = [op |-> op, exc |-> exc, msg |-> msg]
    /\ ret_projects' = <<>>
    /\ ret_tasks' = <<>>
    /\ UNCHANGED <<projects, next_project_id, next_task_id,
                   issued_project_ids, issued_task_ids>>
    /\ UNCHANGED env

\* the call returns; rp is the project or the list of projects returned,
\* rt the task or the list of tasks returned
Return(op, rp, rt) ==
    /\ ret' = [op |-> op, exc |-> NoError, msg |-> ""]
    /\ ret_projects' = rp
    /\ ret_tasks' = rt
    /\ UNCHANGED env

----------------------------------------------------------------------------
(* Project CRUD *)

\* add_project taking the number of projects plus one as the id
add_project_id_from_count(name, description) ==
    IF Cardinality(DOMAIN projects) >= MAX_NUMBER_OF_PROJECT
    THEN Raise("add_project", ValidationError, MsgProjectLimit)
    ELSE IF \E p \in Values(projects) : p.name = name
    THEN Raise("add_project", ValidationError, MsgProjectExists(name))
    ELSE IF Len(name) > MAX_PROJECT_NAME
    THEN Raise("add_project", ValidationError, MsgProjectNameLen)
    ELSE IF Len(description) > MAX_PROJECT_DESC
    THEN Raise("add_project", ValidationError, MsgProjectDescLen)
    ELSE LET id == Cardinality(DOMAIN projects) + 1
             project == Project(id, name, description, <<>>)
         IN /\ next_project_id <= MaxProjectId
            /\ projects' = DictSet(projects, id, project)
            /\ next_project_id' = next_project_id + 1
            /\ issued_project_ids' = Append(issued_project_ids, id)
            /\ Return("add_project", <<project>>, <<>>)
            /\ UNCHANGED <<next_task_id, issued_task_ids>>

\* add_project checking the maximum after the name and the lengths
add_project_limit_checked_last(name, description) ==
    IF \E p \in Values(projects) : p.name = name
    THEN Raise("add_project", ValidationError, MsgProjectExists(name))
    ELSE IF Len(name) > MAX_PROJECT_NAME
    THEN Raise("add_project", ValidationError, MsgProjectNameLen)
    ELSE IF Len(description) > MAX_PROJECT_DESC
    THEN Raise("add_project", ValidationError, MsgProjectDescLen)
    ELSE IF Cardinality(DOMAIN projects) >= MAX_NUMBER_OF_PROJECT
    THEN Raise("add_project", ValidationError, MsgProjectLimit)
    ELSE LET project == Project(next_project_id, name, description, <<>>)
         IN /\ next_project_id <= MaxProjectId
            /\ projects' = DictSet(projects, next_project_id, project)
            /\ next_project_id' = next_project_id + 1
            /\ issued_project_ids' = Append(issued_project_ids, next_project_id)
            /\ Return("add_project", <<project>>, <<>>)
            /\ UNCHANGED <<next_task_id, issued_task_ids>>

\* add_project checking the lengths before the duplicate name
add_project_lengths_checked_first(name, description) ==
    IF Cardinality(DOMAIN projects) >= MAX_NUMBER_OF_PROJECT
    THEN Raise("add_project", ValidationError, MsgProjectLimit)
    ELSE IF Len(name) > MAX_PROJECT_NAME
    THEN Raise("add_project", ValidationError, MsgProjectNameLen)
    ELSE IF Len(description) > MAX_PROJECT_DESC
    THEN Raise("add_project", ValidationError, MsgProjectDescLen)
    ELSE IF \E p \in Values(projects) : p.name = name
    THEN Raise("add_project", ValidationError, MsgProjectExists(name))
    ELSE LET project == Project(next_project_id, name, description, <<>>)
         IN /\ next_project_id <= MaxProjectId
            /\ projects' = DictSet(projects, next_project_id, project)
            /\ next_project_id' = next_project_id + 1
            /\ issued_project_ids' = Append(issued_project_ids, next_project_id)
            /\ Return("add_project", <<project>>, <<>>)
            /\ UNCHANGED <<next_task_id, issued_task_ids>>

\* add_project comparing the length of the name with >= in place of >
add_project_name_limit_exclusive(name, description) ==
    IF Cardinality(DOMAIN projects) >= MAX_NUMBER_OF_PROJECT
    THEN Raise("add_project", ValidationError, MsgProjectLimit)
    ELSE IF \E p \in Values(projects) : p.name = name
    THEN Raise("add_project", ValidationError, MsgProjectExists(name))
    ELSE IF Len(name) >= MAX_PROJECT_NAME
    THEN Raise("add_project", ValidationError, MsgProjectNameLen)
    ELSE IF Len(description) > MAX_PROJECT_DESC
    THEN Raise("add_project", ValidationError, MsgProjectDescLen)
    ELSE LET project == Project(next_project_id, name, description, <<>>)
         IN /\ next_project_id <= MaxProjectId
            /\ projects' = DictSet(projects, next_project_id, project)
            /\ next_project_id' = next_project_id + 1
            /\ issued_project_ids' = Append(issued_project_ids, next_project_id)
            /\ Return("add_project", <<project>>, <<>>)
            /\ UNCHANGED <<next_task_id, issued_task_ids>>

add_project(name, description) ==
    IF Cardinality(DOMAIN projects) >= MAX_NUMBER_OF_PROJECT
    THEN Raise("add_project", ValidationError, MsgProjectLimit)
    ELSE IF \E p \in Values(projects) : p.name = name
    THEN Raise("add_project", ValidationError, MsgProjectExists(name))
    ELSE IF Len(name) > MAX_PROJECT_NAME
    THEN Raise("add_project", ValidationError, MsgProjectNameLen)
    ELSE IF Len(description) > MAX_PROJECT_DESC
    THEN Raise("add_project", ValidationError, MsgProjectDescLen)
    ELSE LET project == Project(next_project_id, name, description, <<>>)
         IN /\ next_project_id <= MaxProjectId
            /\ projects' = DictSet(projects, next_project_id, project)
            /\ next_project_id' = next_project_id + 1
            /\ issued_project_ids' = Append(issued_project_ids, next_project_id)
            /\ Return("add_project", <<project>>, <<>>)
            /\ UNCHANGED <<next_task_id, issued_task_ids>>

\* edit_project without the check for a duplicate name
edit_project_no_duplicate_check(project_id, name, description) ==
    IF project_id \notin DOMAIN projects
    THEN Raise("edit_project", ValidationError, MsgProjectNotFound)
    ELSE IF Len(name) > MAX_PROJECT_NAME
    THEN Raise("edit_project", ValidationError, MsgProjectNameLen)
    ELSE IF Len(description) > MAX_PROJECT_DESC
    THEN Raise("edit_project", ValidationError, MsgProjectDescLen)
    ELSE LET project == [projects[project_id] EXCEPT
                            !.name = name, !.description = description]
         IN /\ projects' = [projects EXCEPT ![project_id] = project]
            /\ Return("edit_project", <<project>>, <<>>)
            /\ UNCHANGED <<next_project_id, next_task_id,
                           issued_project_ids, issued_task_ids>>

\* edit_project whose check for a duplicate name includes the project itself
edit_project_own_name_duplicate(project_id, name, description) ==
    IF project_id \notin DOMAIN projects
    THEN Raise("edit_project", ValidationError, MsgProjectNotFound)
    ELSE IF Len(name) > MAX_PROJECT_NAME
    THEN Raise("edit_project", ValidationError, MsgProjectNameLen)
    ELSE IF Len(description) > MAX_PROJECT_DESC
    THEN Raise("edit_project", ValidationError, MsgProjectDescLen)
    ELSE IF \E p \in Values(projects) : p.name = name
    THEN Raise("edit_project", ValidationError, MsgProjectExists(name))
    ELSE LET project == [projects[project_id] EXCEPT
                            !.name = name, !.description = description]
         IN /\ projects' = [projects EXCEPT ![project_id] = project]
            /\ Return("edit_project", <<project>>, <<>>)
            /\ UNCHANGED <<next_project_id, next_task_id,
                           issued_project_ids, issued_task_ids>>

\* edit_project that stores a new Project in place of the old one: the new
\* project has no tasks
edit_project_new_project(project_id, name, description) ==
    IF project_id \notin DOMAIN projects
    THEN Raise("edit_project", ValidationError, MsgProjectNotFound)
    ELSE IF Len(name) > MAX_PROJECT_NAME
    THEN Raise("edit_project", ValidationError, MsgProjectNameLen)
    ELSE IF Len(description) > MAX_PROJECT_DESC
    THEN Raise("edit_project", ValidationError, MsgProjectDescLen)
    ELSE IF \E p \in Values(projects) : p.name = name /\ p.id # project_id
    THEN Raise("edit_project", ValidationError, MsgProjectExists(name))
    ELSE LET project == Project(project_id, name, description, <<>>)
         IN /\ projects' = [projects EXCEPT ![project_id] = project]
            /\ Return("edit_project", <<project>>, <<>>)
            /\ UNCHANGED <<next_project_id, next_task_id,
                           issued_project_ids, issued_task_ids>>

edit_project(project_id, name, description) ==
    IF project_id \notin DOMAIN projects
    THEN Raise("edit_project", ValidationError, MsgProjectNotFound)
    ELSE IF Len(name) > MAX_PROJECT_NAME
    THEN Raise("edit_project", ValidationError, MsgProjectNameLen)
    ELSE IF Len(description) > MAX_PROJECT_DESC
    THEN Raise("edit_project", ValidationError, MsgProjectDescLen)
    ELSE IF \E p \in Values(projects) : p.name = name /\ p.id # project_id
    THEN Raise("edit_project", ValidationError, MsgProjectExists(name))
    ELSE LET project == [projects[project_id] EXCEPT
                            !.name = name, !.description = description]
         IN /\ projects' = [projects EXCEPT ![project_id] = project]
            /\ Return("edit_project", <<project>>, <<>>)
            /\ UNCHANGED <<next_project_id, next_task_id,
                           issued_project_ids, issued_task_ids>>

\* delete_project emptying the task list but keeping the project
delete_project_keeps_project(project_id) ==
    IF project_id \notin DOMAIN projects
    THEN Raise("delete_project", ValidationError, MsgProjectNotFound)
    ELSE /\ projects' = [projects EXCEPT ![project_id].tasks = <<>>]
         /\ Return("delete_project", <<>>, <<>>)
         /\ UNCHANGED <<next_project_id, next_task_id,
                        issued_project_ids, issued_task_ids>>

delete_project(project_id) ==
    IF project_id \notin DOMAIN projects
    THEN Raise("delete_project", ValidationError, MsgProjectNotFound)
    ELSE /\ projects' = DictDel(projects, project_id)
         /\ Return("delete_project", <<>>, <<>>)
         /\ UNCHANGED <<next_project_id, next_task_id,
                        issued_project_ids, issued_task_ids>>

list_projects ==
    /\ Return("list_projects", SortById(Values(projects)), <<>>)
    /\ UNCHANGED <<projects, next_project_id, next_task_id,
                   issued_project_ids, issued_task_ids>>

list_all_projects ==
    /\ Return("list_all_projects", SortById(Values(projects)), <<>>)
    /\ UNCHANGED <<projects, next_project_id, next_task_id,
                   issued_project_ids, issued_task_ids>>

----------------------------------------------------------------------------
(* Task CRUD *)

\* "if deadline:" holds for a text that is neither None nor empty
Truthy(deadline) == ~IsNone(deadline) /\ Val(deadline) # <<>>

\* the deadline stored for the argument deadline: None (<<>>) when the
\* argument is None or empty, otherwise the date it parses to
TaskDeadline(deadline) ==
    IF Truthy(deadline) THEN StrpDate(Val(deadline)) ELSE <<>>

\* strptime raises ValueError on the argument deadline
BadDeadline(deadline) == Truthy(deadline) /\ StrpDate(Val(deadline)) = <<>>

\* add_task numbering the tasks within the project
add_task_id_per_project(project_id, title, description, status, deadline) ==
    IF project_id \notin DOMAIN projects
    THEN Raise("add_task", ValidationError, MsgProjectNotFound)
    ELSE IF Len(projects[project_id].tasks) >= MAX_NUMBER_OF_TASK
    THEN Raise("add_task", ValidationError, MsgTaskLimit)
    ELSE IF IsNone(title)
    THEN Raise("add_task", TypeError, MsgLenOfNone)
    ELSE IF Len(Val(title)) > MAX_TASK_TITLE
    THEN Raise("add_task", ValidationError, MsgTaskTitleLen)
    ELSE IF IsNone(description)
    THEN Raise("add_task", TypeError, MsgLenOfNone)
    ELSE IF Len(Val(description)) > MAX_TASK_DESC
    THEN Raise("add_task", ValidationError, MsgTaskDescLen)
    ELSE IF ~InList(status, VALID_STATUSES)
    THEN Raise("add_task", ValidationError, MsgInvalidStatus(status))
    ELSE IF BadDeadline(deadline)
    THEN Raise("add_task", ValidationError, MsgDeadlineFormat)
    ELSE LET task == Task(Len(projects[project_id].tasks) + 1, Val(title), Val(description),
                          status, TaskDeadline(deadline))
         IN /\ next_task_id <= MaxTaskId
            /\ next_task_id' = next_task_id + 1
            /\ issued_task_ids' = issued_task_ids \cup {task.id}
            /\ projects' = [projects EXCEPT
                   ![project_id].tasks = Append(@, task)]
            /\ Return("add_task", <<>>, <<task>>)
            /\ UNCHANGED <<next_project_id, issued_project_ids>>

\* add_task comparing the number of tasks with > in place of >=
add_task_limit_off_by_one(project_id, title, description, status, deadline) ==
    IF project_id \notin DOMAIN projects
    THEN Raise("add_task", ValidationError, MsgProjectNotFound)
    ELSE IF Len(projects[project_id].tasks) > MAX_NUMBER_OF_TASK
    THEN Raise("add_task", ValidationError, MsgTaskLimit)
    ELSE IF IsNone(title)
    THEN Raise("add_task", TypeError, MsgLenOfNone)
    ELSE IF Len(Val(title)) > MAX_TASK_TITLE
    THEN Raise("add_task", ValidationError, MsgTaskTitleLen)
    ELSE IF IsNone(description)
    THEN Raise("add_task", TypeError, MsgLenOfNone)
    ELSE IF Len(Val(description)) > MAX_TASK_DESC
    THEN Raise("add_task", ValidationError, MsgTaskDescLen)
    ELSE IF ~InList(status, VALID_STATUSES)
    THEN Raise("add_task", ValidationError, MsgInvalidStatus(status))
    ELSE IF BadDeadline(deadline)
    THEN Raise("add_task", ValidationError, MsgDeadlineFormat)
    ELSE LET task == Task(next_task_id, Val(title), Val(description),
                          status, TaskDeadline(deadline))
         IN /\ next_task_id <= MaxTaskId
            /\ next_task_id' = next_task_id + 1
            /\ issued_task_ids' = issued_task_ids \cup {next_task_id}
            /\ projects' = [projects EXCEPT
                   ![project_id].tasks = Append(@, task)]
            /\ Return("add_task", <<>>, <<task>>)
            /\ UNCHANGED <<next_project_id, issued_project_ids>>

\* add_task putting the new task at the head of the list of the project
add_task_inserts_first(project_id, title, description, status, deadline) ==
    IF project_id \notin DOMAIN projects
    THEN Raise("add_task", ValidationError, MsgProjectNotFound)
    ELSE IF Len(projects[project_id].tasks) >= MAX_NUMBER_OF_TASK
    THEN Raise("add_task", ValidationError, MsgTaskLimit)
    ELSE IF IsNone(title)
    THEN Raise("add_task", TypeError, MsgLenOfNone)
    ELSE IF Len(Val(title)) > MAX_TASK_TITLE
    THEN Raise("add_task", ValidationError, MsgTaskTitleLen)
    ELSE IF IsNone(description)
    THEN Raise("add_task", TypeError, MsgLenOfNone)
    ELSE IF Len(Val(description)) > MAX_TASK_DESC
    THEN Raise("add_task", ValidationError, MsgTaskDescLen)
    ELSE IF ~InList(status, VALID_STATUSES)
    THEN Raise("add_task", ValidationError, MsgInvalidStatus(status))
    ELSE IF BadDeadline(deadline)
    THEN Raise("add_task", ValidationError, MsgDeadlineFormat)
    ELSE LET task == Task(next_task_id, Val(title), Val(description),
                          status, TaskDeadline(deadline))
         IN /\ next_task_id <= MaxTaskId
            /\ next_task_id' = next_task_id + 1
            /\ issued_task_ids' = issued_task_ids \cup {next_task_id}
            /\ projects' = [projects EXCEPT
                   ![project_id].tasks = <<task>> \o @]
            /\ Return("add_task", <<>>, <<task>>)
            /\ UNCHANGED <<next_project_id, issued_project_ids>>

\* add_task taking the id of the new task before it parses the deadline:
\* a deadline that does not parse raises after next_task_id was incremented
add_task_id_taken_before_deadline(project_id, title, description, status, deadline) ==
    IF project_id \notin DOMAIN projects
    THEN Raise("add_task", ValidationError, MsgProjectNotFound)
    ELSE IF Len(projects[project_id].tasks) >= MAX_NUMBER_OF_TASK
    THEN Raise("add_task", ValidationError, MsgTaskLimit)
    ELSE IF IsNone(title)
    THEN Raise("add_task", TypeError, MsgLenOfNone)
    ELSE IF Len(Val(title)) > MAX_TASK_TITLE
    THEN Raise("add_task", ValidationError, MsgTaskTitleLen)
    ELSE IF IsNone(description)
    THEN Raise("add_task", TypeError, MsgLenOfNone)
    ELSE IF Len(Val(description)) > MAX_TASK_DESC
    THEN Raise("add_task", ValidationError, MsgTaskDescLen)
    ELSE IF ~InList(status, VALID_STATUSES)
    THEN Raise("add_task", ValidationError, MsgInvalidStatus(status))
    ELSE IF BadDeadline(deadline)
    THEN /\ next_task_id <= MaxTaskId
         /\ next_task_id' = next_task_id + 1
         /\ issued_task_ids' = issued_task_ids \cup {next_task_id}
         /\ ret' = [op |-> "add_task", exc |-> ValidationError,
                    msg |-> MsgDeadlineFormat]
         /\ ret_projects' = <<>>
         /\ ret_tasks' = <<>>
         /\ UNCHANGED <<projects, next_project_id, issued_project_ids>>
         /\ UNCHANGED env
    ELSE LET task == Task(next_task_id, Val(title), Val(description),
                          status, TaskDeadline(deadline))
         IN /\ next_task_id <= MaxTaskId
            /\ next_task_id' = next_task_id + 1
            /\ issued_task_ids' = issued_task_ids \cup {next_task_id}
            /\ projects' = [projects EXCEPT
                   ![project_id].tasks = Append(@, task)]
            /\ Return("add_task", <<>>, <<task>>)
            /\ UNCHANGED <<next_project_id, issued_project_ids>>

add_task(project_id, title, description, status, deadline) ==
    IF project_id \notin DOMAIN projects
    THEN Raise("add_task", ValidationError, MsgProjectNotFound)
    ELSE IF Len(projects[project_id].tasks) >= MAX_NUMBER_OF_TASK
    THEN Raise("add_task", ValidationError, MsgTaskLimit)
    ELSE IF IsNone(title)
    THEN Raise("add_task", TypeError, MsgLenOfNone)
    ELSE IF Len(Val(title)) > MAX_TASK_TITLE
    THEN Raise("add_task", ValidationError, MsgTaskTitleLen)
    ELSE IF IsNone(description)
    THEN Raise("add_task", TypeError, MsgLenOfNone)
    ELSE IF Len(Val(description)) > MAX_TASK_DESC
    THEN Raise("add_task", ValidationError, MsgTaskDescLen)
    ELSE IF ~InList(status, VALID_STATUSES)
    THEN Raise("add_task", ValidationError, MsgInvalidStatus(status))
    ELSE IF BadDeadline(deadline)
    THEN Raise("add_task", ValidationError, MsgDeadlineFormat)
    ELSE LET task == Task(next_task_id, Val(title), Val(description),
                          status, TaskDeadline(deadline))
         IN /\ next_task_id <= MaxTaskId
            /\ next_task_id' = next_task_id + 1
            /\ issued_task_ids' = issued_task_ids \cup {next_task_id}
            /\ projects' = [projects EXCEPT
                   ![project_id].tasks = Append(@, task)]
            /\ Return("add_task", <<>>, <<task>>)
            /\ UNCHANGED <<next_project_id, issued_project_ids>>

\* add_task called without status and deadline: the defaults of the
\* signature, status = "todo" and deadline = None, are passed
add_task_omitted(project_id, title, description) ==
    add_task(project_id, title, description, "todo", None)

\* edit_task that validates the deadline and never assigns it to the task:
\* the task is left without a deadline
edit_task_forgets_deadline(project_id, task_id, title, description, status, deadline) ==
    IF project_id \notin DOMAIN projects
    THEN Raise("edit_task", ValidationError, MsgProjectNotFound)
    ELSE IF FindTask(projects[project_id].tasks, task_id) = 0
    THEN Raise("edit_task", ValidationError, MsgTaskNotFound)
    ELSE IF IsNone(title)
    THEN Raise("edit_task", TypeError, MsgLenOfNone)
    ELSE IF Len(Val(title)) > MAX_TASK_TITLE
    THEN Raise("edit_task", ValidationError, MsgTaskTitleLen)
    ELSE IF IsNone(description)
    THEN Raise("edit_task", TypeError, MsgLenOfNone)
    ELSE IF Len(Val(description)) > MAX_TASK_DESC
    THEN Raise("edit_task", ValidationError, MsgTaskDescLen)
    ELSE IF ~InList(status, VALID_STATUSES)
    THEN Raise("edit_task", ValidationError, MsgInvalidStatus(status))
    ELSE IF BadDeadline(deadline)
    THEN Raise("edit_task", ValidationError, MsgDeadlineFormat)
    ELSE LET i == FindTask(projects[project_id].tasks, task_id)
             task == [projects[project_id].tasks[i] EXCEPT
                         !.title = Val(title),
                         !.description = Val(description),
                         !.status = status,
                         !.deadline = <<>>]
         IN /\ projects' = [projects EXCEPT
                   ![project_id].tasks = ListSet(@, i, task)]
            /\ Return("edit_task", <<>>, <<task>>)
            /\ UNCHANGED <<next_project_id, next_task_id,
                           issued_project_ids, issued_task_ids>>

\* edit_task as a partial update: a deadline that is None or empty leaves
\* the deadline of the task as it was
edit_task_keeps_deadline(project_id, task_id, title, description, status, deadline) ==
    IF project_id \notin DOMAIN projects
    THEN Raise("edit_task", ValidationError, MsgProjectNotFound)
    ELSE IF FindTask(projects[project_id].tasks, task_id) = 0
    THEN Raise("edit_task", ValidationError, MsgTaskNotFound)
    ELSE IF IsNone(title)
    THEN Raise("edit_task", TypeError, MsgLenOfNone)
    ELSE IF Len(Val(title)) > MAX_TASK_TITLE
    THEN Raise("edit_task", ValidationError, MsgTaskTitleLen)
    ELSE IF IsNone(description)
    THEN Raise("edit_task", TypeError, MsgLenOfNone)
    ELSE IF Len(Val(description)) > MAX_TASK_DESC
    THEN Raise("edit_task", ValidationError, MsgTaskDescLen)
    ELSE IF ~InList(status, VALID_STATUSES)
    THEN Raise("edit_task", ValidationError, MsgInvalidStatus(status))
    ELSE IF BadDeadline(deadline)
    THEN Raise("edit_task", ValidationError, MsgDeadlineFormat)
    ELSE LET i == FindTask(projects[project_id].tasks, task_id)
             task == [projects[project_id].tasks[i] EXCEPT
                         !.title = Val(title),
                         !.description = Val(description),
                         !.status = status,
                         !.deadline = IF Truthy(deadline)
                                      THEN TaskDeadline(deadline) ELSE @]
         IN /\ projects' = [projects EXCEPT
                   ![project_id].tasks = ListSet(@, i, task)]
            /\ Return("edit_task", <<>>, <<task>>)
            /\ UNCHANGED <<next_project_id, next_task_id,
                           issued_project_ids, issued_task_ids>>

edit_task(project_id, task_id, title, description, status, deadline) ==
    IF project_id \notin DOMAIN projects
    THEN Raise("edit_task", ValidationError, MsgProjectNotFound)
    ELSE IF FindTask(projects[project_id].tasks, task_id) = 0
    THEN Raise("edit_task", ValidationError, MsgTaskNotFound)
    ELSE IF IsNone(title)
    THEN Raise("edit_task", TypeError, MsgLenOfNone)
    ELSE IF Len(Val(title)) > MAX_TASK_TITLE
    THEN Raise("edit_task", ValidationError, MsgTaskTitleLen)
    ELSE IF IsNone(description)
    THEN Raise("edit_task", TypeError, MsgLenOfNone)
    ELSE IF Len(Val(description)) > MAX_TASK_DESC
    THEN Raise("edit_task", ValidationError, MsgTaskDescLen)
    ELSE IF ~InList(status, VALID_STATUSES)
    THEN Raise("edit_task", ValidationError, MsgInvalidStatus(status))
    ELSE IF BadDeadline(deadline)
    THEN Raise("edit_task", ValidationError, MsgDeadlineFormat)
    ELSE LET i == FindTask(projects[project_id].tasks, task_id)
             task == [projects[project_id].tasks[i] EXCEPT
                         !.title = Val(title),
                         !.description = Val(description),
                         !.status = status,
                         !.deadline = TaskDeadline(deadline)]
         IN /\ projects' = [projects EXCEPT
                   ![project_id].tasks = ListSet(@, i, task)]
            /\ Return("edit_task", <<>>, <<task>>)
            /\ UNCHANGED <<next_project_id, next_task_id,
                           issued_project_ids, issued_task_ids>>

\* delete_task looking the task up in the lists of all projects once the
\* given project is found
delete_task_any_project(project_id, task_id) ==
    IF project_id \notin DOMAIN projects
    THEN Raise("delete_task", ValidationError, MsgProjectNotFound)
    ELSE IF \A q \in DOMAIN projects : FindTask(projects[q].tasks, task_id) = 0
    THEN Raise("delete_task", ValidationError, MsgTaskNotFound)
    ELSE /\ projects' =
               [q \in DOMAIN projects |->
                   [projects[q] EXCEPT !.tasks =
                       IF FindTask(@, task_id) = 0 THEN @
                       ELSE ListRemove(@, @[FindTask(@, task_id)])]]
         /\ Return("delete_task", <<>>, <<>>)
         /\ UNCHANGED <<next_project_id, next_task_id,
                        issued_project_ids, issued_task_ids>>

delete_task(project_id, task_id) ==
    IF project_id \notin DOMAIN projects
    THEN Raise("delete_task", ValidationError, MsgProjectNotFound)
    ELSE IF FindTask(projects[project_id].tasks, task_id) = 0
    THEN Raise("delete_task", ValidationError, MsgTaskNotFound)
    ELSE LET i == FindTask(projects[project_id].tasks, task_id)
             task == projects[project_id].tasks[i]
         IN /\ projects' = [projects EXCEPT
                   ![project_id].tasks = ListRemove(@, task)]
            /\ Return("delete_task", <<>>, <<>>)
            /\ UNCHANGED <<next_project_id, next_task_id,
                           issued_project_ids, issued_task_ids>>

\* change_task_status written as an edit that passes no deadline
change_task_status_drops_deadline(project_id, task_id, status) ==
    IF project_id \notin DOMAIN projects
    THEN Raise("change_task_status", ValidationError, MsgProjectNotFound)
    ELSE IF FindTask(projects[project_id].tasks, task_id) = 0
    THEN Raise("change_task_status", ValidationError, MsgTaskNotFound)
    ELSE IF ~InList(status, VALID_STATUSES)
    THEN Raise("change_task_status", ValidationError,
               MsgInvalidStatus(status))
    ELSE LET i == FindTask(projects[project_id].tasks, task_id)
             task == [projects[project_id].tasks[i] EXCEPT !.status = status,
                                                   !.deadline = <<>>]
         IN /\ projects' = [projects EXCEPT
                   ![project_id].tasks = ListSet(@, i, task)]
            /\ Return("change_task_status", <<>>, <<task>>)
            /\ UNCHANGED <<next_project_id, next_task_id,
                           issued_project_ids, issued_task_ids>>

\* change_task_status that assigns the status without testing that it is
\* one of VALID_STATUSES
change_task_status_any_status(project_id, task_id, status) ==
    IF project_id \notin DOMAIN projects
    THEN Raise("change_task_status", ValidationError, MsgProjectNotFound)
    ELSE IF FindTask(projects[project_id].tasks, task_id) = 0
    THEN Raise("change_task_status", ValidationError, MsgTaskNotFound)
    ELSE LET i == FindTask(projects[project_id].tasks, task_id)
             task == [projects[project_id].tasks[i] EXCEPT !.status = status]
         IN /\ projects' = [projects EXCEPT
                   ![project_id].tasks = ListSet(@, i, task)]
            /\ Return("change_task_status", <<>>, <<task>>)
            /\ UNCHANGED <<next_project_id, next_task_id,
                           issued_project_ids, issued_task_ids>>

change_task_status(project_id, task_id, status) ==
    IF project_id \notin DOMAIN projects
    THEN Raise("change_task_status", ValidationError, MsgProjectNotFound)
    ELSE IF FindTask(projects[project_id].tasks, task_id) = 0
    THEN Raise("change_task_status", ValidationError, MsgTaskNotFound)
    ELSE IF ~InList(status, VALID_STATUSES)
    THEN Raise("change_task_status", ValidationError,
               MsgInvalidStatus(status))
    ELSE LET i == FindTask(projects[project_id].tasks, task_id)
             task == [projects[project_id].tasks[i] EXCEPT !.status = status]
         IN /\ projects' = [projects EXCEPT
                   ![project_id].tasks = ListSet(@, i, task)]
            /\ Return("change_task_status", <<>>, <<task>>)
            /\ UNCHANGED <<next_project_id, next_task_id,
                           issued_project_ids, issued_task_ids>>

list_tasks(project_id) ==
    IF project_id \notin DOMAIN projects
    THEN Raise("list_tasks", ValidationError, MsgProjectNotFound)
    ELSE /\ Return("list_tasks", <<>>, projects[project_id].tasks)
         /\ UNCHANGED <<projects, next_project_id, next_task_id,
                        issued_project_ids, issued_task_ids>>

----------------------------------------------------------------------------
(* Arguments of the calls *)

Chars31 == Chars30 \o "x"
Chars151 == Chars150 \o "x"

ProjectIdInputs == 1..MaxProjectId
TaskIdInputs == 1..MaxTaskId

\* (name, description) of add_project and edit_project
ProjectInputs ==
    {<<"Alpha", "">>, <<"Alpha", Chars150>>, <<Chars30, "">>,
     <<Chars31, "">>, <<"Alpha", Chars151>>}

Date20250101 == <<"2", "0", "2", "5", "-", "0", "1", "-", "0", "1">>
Date202511 == <<"2", "0", "2", "5", "-", "1", "-", "1">>
Date20250230 == <<"2", "0", "2", "5", "-", "0", "2", "-", "3", "0">>

\* (title, description, status, deadline) of add_task and edit_task
TaskInputs ==
    {<<Some("T"), Some("D"), "todo", None>>,
     <<Some(Chars30), Some(Chars150), "doing", Some(Date20250101)>>,
     <<Some("T"), Some("D"), "todo", Some(<<>>)>>,
     <<Some(Chars30), Some(Chars150), "doing", Some(Date202511)>>,
     <<Some(Chars31), Some("D"), "todo", None>>,
     <<Some("T"), Some(Chars151), "todo", None>>,
     <<None, Some("D"), "todo", None>>,
     <<Some("T"), Some("D"), "", None>>,
     <<Some("T"), Some("D"), "todo", Some(Date20250230)>>}

StatusInputs == {"done", "TODO"}

----------------------------------------------------------------------------
(* The repository *)

\* the outcome variables when no call has been made or the caller has
\* taken the outcome of its last call
NoCall == [op |-> "", exc |-> NoError, msg |-> ""]

\* nothing has been printed
NoDisplay == [kind |-> "", text |-> ""]

\* int(os.getenv("MAX_NUMBER_OF_PROJECT", 20)) and
\* int(os.getenv("MAX_NUMBER_OF_TASK", 200)) for the environments of the model
EnvMaxima == {1, 2}

Init ==
    /\ MAX_NUMBER_OF_PROJECT \in EnvMaxima
    /\ MAX_NUMBER_OF_TASK \in EnvMaxima
    /\ projects = <<>>
    /\ next_project_id = 1
    /\ next_task_id = 1
    /\ ret = NoCall
    /\ ret_projects = <<>>
    /\ ret_tasks = <<>>
    /\ issued_project_ids = <<>>
    /\ issued_task_ids = {}
    /\ pc = "no_menu"
    /\ menu_project = 0
    /\ display = NoDisplay

\* The repository is used by a single control flow: a call is made only
\* after the outcome of the previous one has been taken (Resume).
Idle == ret = NoCall

AddProject ==
    /\ Idle
    /\ \E a \in ProjectInputs : add_project(a[1], a[2])
    /\ UNCHANGED menu
EditProject ==
    /\ Idle
    /\ \E project_id \in ProjectIdInputs, a \in ProjectInputs :
          edit_project(project_id, a[1], a[2])
    /\ UNCHANGED menu
DeleteProject ==
    /\ Idle
    /\ \E project_id \in ProjectIdInputs : delete_project(project_id)
    /\ UNCHANGED menu
ListProjects == Idle /\ list_projects /\ UNCHANGED menu
ListAllProjects == Idle /\ list_all_projects /\ UNCHANGED menu
AddTask ==
    /\ Idle
    /\ \E project_id \in ProjectIdInputs, a \in TaskInputs :
          add_task(project_id, a[1], a[2], a[3], a[4])
    /\ UNCHANGED menu
EditTask ==
    /\ Idle
    /\ \E project_id \in ProjectIdInputs, task_id \in TaskIdInputs,
          a \in TaskInputs :
          edit_task(project_id, task_id, a[1], a[2], a[3], a[4])
    /\ UNCHANGED menu
DeleteTask ==
    /\ Idle
    /\ \E project_id \in ProjectIdInputs, task_id \in TaskIdInputs :
          delete_task(project_id, task_id)
    /\ UNCHANGED menu
ChangeTaskStatus ==
    /\ Idle
    /\ \E project_id \in ProjectIdInputs, task_id \in TaskIdInputs,
          status \in StatusInputs :
          change_task_status(project_id, task_id, status)
    /\ UNCHANGED menu
ListTasks ==
    /\ Idle
    /\ \E project_id \in ProjectIdInputs : list_tasks(project_id)
    /\ UNCHANGED menu

\* the caller takes the outcome of the call
Resume ==
    /\ ~Idle
    /\ ret' = NoCall
    /\ ret_projects' = <<>>
    /\ ret_tasks' = <<>>
    /\ UNCHANGED <<projects, next_project_id, next_task_id,
                   issued_project_ids, issued_task_ids>>
    /\ UNCHANGED env
    /\ UNCHANGED menu

Next ==
    \/ AddProject
    \/ EditProject
    \/ DeleteProject
    \/ ListProjects
    \/ ListAllProjects
    \/ AddTask
    \/ EditTask
    \/ DeleteTask
    \/ ChangeTaskStatus
    \/ ListTasks
    \/ Resume

Spec == Init /\ [][Next]_vars

\* The repository after add_project("Alpha", "") and three calls of
\* add_task(1, "T", "D") in an environment whose MAX_NUMBER_OF_TASK is 3:
\* a project that holds three tasks, which the maxima of EnvMaxima do not
\* allow
InitThreeTasks ==
    /\ MAX_NUMBER_OF_PROJECT \in EnvMaxima
    /\ MAX_NUMBER_OF_TASK = 3
    /\ projects = DictSet(<<>>, 1,
          Project(1, "Alpha", "",
                  [i \in 1..3 |-> Task(i, "T", "D", "todo", None)]))
    /\ next_project_id = 2
    /\ next_task_id = 4
    /\ ret = NoCall
    /\ ret_projects = <<>>
    /\ ret_tasks = <<>>
    /\ issued_project_ids = <<1>>
    /\ issued_task_ids = {1, 2, 3}
    /\ pc = "no_menu"
    /\ menu_project = 0
    /\ display = NoDisplay

\* the repository used from the empty state or from the state with three
\* tasks
SpecThreeTasks == (Init \/ InitThreeTasks) /\ [][Next]_vars

----------------------------------------------------------------------------
(* The interactive menu: the prompts and displays of src/src/cli/cli.py *)

\* the classes of the taxonomy that the handlers name in except clauses
\* and the repository never raises
ProjectNotFoundError == "ProjectNotFoundError"
TaskNotFoundError == "TaskNotFoundError"
LimitExceededError == "LimitExceededError"
ValueError == "ValueError"

\* int(text) of the prompts for a choice or an id, None for an empty text
\* and for a text that is not a number (ValueError caught by the prompt).
\* The texts the model types are empty, one digit, or not a number, and
\* have no blanks around them for strip() to remove.
IntOrNone(text) ==
    IF text = "" THEN None
    ELSE IF IsDigit(text) THEN Some(DigitVal(text))
    ELSE None

prompt_for_main_choice(text) == IntOrNone(text)
prompt_for_project_id(text) == IntOrNone(text)
prompt_for_task_menu_choice(text) == IntOrNone(text)
prompt_for_task_id(text) == IntOrNone(text)

\* str.lower() on the status texts the model types
Lower(text) ==
    CASE text = "DONE" -> "done"
      [] text = "Doing" -> "doing"
      [] OTHER -> text

\* str.upper() on the valid statuses
Upper(status) ==
    CASE status = "todo" -> "TODO"
      [] status = "doing" -> "DOING"
      [] status = "done" -> "DONE"
      [] OTHER -> status

\* the dict of the task fields typed: a blank field is None, the status is
\* put in lower case
prompt_for_task_data(title, description, status, deadline) ==
    [title |-> IF title = "" THEN None ELSE Some(title),
     description |-> IF description = "" THEN None ELSE Some(description),
     status |-> IF Lower(status) = "" THEN None ELSE Some(Lower(status)),
     deadline |-> IF deadline = <<>> THEN None ELSE Some(deadline)]

prompt_for_new_status(text) ==
    IF Lower(text) = "" THEN None ELSE Some(Lower(text))

display_success(message) == [kind |-> "success", text |-> message]
display_error(message) == [kind |-> "error", text |-> message]
\* the message of the handlers for an exception their except clauses do
\* not name
Unexpected(during) ==
    display_error("An unexpected error occurred " \o during \o ".")
display_exit_message ==
    [kind |-> "exit",
     text |-> "Thank you for using the ToDo List CLI. Goodbye!"]
\* the heading of the list of projects or the notice that there is none
display_projects_list(projects_list) ==
    [kind |-> "projects",
     text |-> IF projects_list = <<>>
              THEN "No projects found. Start by creating one (Option 1)."
              ELSE "--- All Projects ---"]
\* the heading of the list of the tasks of a project
display_tasks_list(project) ==
    [kind |-> "tasks",
     text |-> "--- Tasks for Project '" \o project.name \o "' (ID: "
              \o ToString(project.id) \o ") ---"]
\* the traceback the interpreter prints for an exception nothing caught
Traceback(exc, msg) == [kind |-> "traceback", text |-> exc \o ": " \o msg]

----------------------------------------------------------------------------
(* The interactive menu: the handlers and loops of src/src/main.py *)

\* a step of the program that calls no repository operation
NoRepositoryCall ==
    /\ ret' = NoCall
    /\ ret_projects' = <<>>
    /\ ret_tasks' = <<>>
    /\ UNCHANGED <<projects, next_project_id, next_task_id,
                   issued_project_ids, issued_task_ids>>
    /\ UNCHANGED env

\* the handler returns to the loop that called it
HandlerReturns == pc' = pc

\* an exception that no handler and no loop catches leaves main_menu_loop;
\* the block at the end of main.py catches KeyboardInterrupt only
Propagates(exc, msg) ==
    /\ pc' = "crashed"
    /\ display' = Traceback(exc, msg)

\* TypeError of a call of edit_task that lacks title, description or status
MsgMissingArguments == "edit_task() missing required positional arguments"

handle_create_project(name, description) ==
    /\ add_project(name, description)
    /\ display' =
          IF ret'.exc = NoError
          THEN display_success("Project '" \o ret_projects'[1].name
                  \o "' (ID: " \o ToString(ret_projects'[1].id)
                  \o ") created successfully!")
          ELSE IF ret'.exc \in {ValidationError, LimitExceededError}
          THEN display_error(ret'.msg)
          ELSE Unexpected("during project creation")
    /\ HandlerReturns

handle_list_projects ==
    /\ list_all_projects
    /\ display' = display_projects_list(ret_projects')
    /\ HandlerReturns

\* the list of the projects is shown before the id is asked for; ret keeps
\* the outcome of the last repository call of the handler
handle_delete_project(id_text) ==
    IF DOMAIN projects = {}
    THEN /\ NoRepositoryCall
         /\ display' = display_error("No projects to delete.")
         /\ HandlerReturns
    ELSE IF IsNone(prompt_for_project_id(id_text))
    THEN handle_list_projects
    ELSE LET project_id == Val(prompt_for_project_id(id_text))
         IN /\ delete_project(project_id)
            /\ display' =
                  IF ret'.exc = NoError
                  THEN display_success("Project (ID: "
                          \o ToString(project_id)
                          \o ") deleted successfully (including all tasks).")
                  ELSE IF ret'.exc \in {ProjectNotFoundError}
                  THEN display_error(ret'.msg)
                  ELSE Unexpected("during project deletion")
            /\ HandlerReturns

handle_add_task(project_id, data) ==
    /\ add_task(project_id, data.title, data.description,
                IF IsNone(data.status) THEN "todo" ELSE Val(data.status),
                data.deadline)
    /\ display' =
          IF ret'.exc = NoError
          THEN display_success("Task '" \o ret_tasks'[1].title
                  \o "' (ID: " \o ToString(ret_tasks'[1].id)
                  \o ") added to project.")
          ELSE IF ret'.exc \in {ValidationError, ProjectNotFoundError,
                                LimitExceededError}
          THEN display_error(ret'.msg)
          ELSE Unexpected("during task creation")
    /\ HandlerReturns

\* prints project.tasks of the Project object the task menu holds; the
\* repository's list_tasks is not called
handle_list_tasks(project_id) ==
    /\ NoRepositoryCall
    /\ display' = display_tasks_list(projects[project_id])
    /\ HandlerReturns

\* REPO.edit_task(project_id, task_id, **updates) passes only the fields
\* that were typed: the call raises TypeError when title, description or
\* status is not among them
handle_edit_task(project_id, id_text, data) ==
    IF project_id \notin DOMAIN projects
          \/ projects[project_id].tasks = <<>>
    THEN /\ NoRepositoryCall
         /\ display' = display_error("No tasks to edit in this project.")
         /\ HandlerReturns
    ELSE IF IsNone(prompt_for_task_id(id_text))
    THEN handle_list_tasks(project_id)
    ELSE IF /\ IsNone(data.title) /\ IsNone(data.description)
            /\ IsNone(data.status) /\ IsNone(data.deadline)
    THEN /\ NoRepositoryCall
         /\ display' = display_error("No fields were provided for update.")
         /\ HandlerReturns
    ELSE /\ IF \/ IsNone(data.title) \/ IsNone(data.description)
               \/ IsNone(data.status)
            THEN Raise("edit_task", TypeError, MsgMissingArguments)
            ELSE edit_task(project_id, Val(prompt_for_task_id(id_text)),
                           data.title, data.description, Val(data.status),
                           data.deadline)
         /\ display' =
               IF ret'.exc = NoError
               THEN display_success("Task '" \o ret_tasks'[1].title
                       \o "' (ID: " \o ToString(ret_tasks'[1].id)
                       \o ") updated successfully.")
               ELSE IF ret'.exc \in {ProjectNotFoundError, TaskNotFoundError,
                                     ValidationError}
               THEN display_error(ret'.msg)
               ELSE Unexpected("during task editing")
         /\ HandlerReturns

\* the check of the new status and its raise ValueError stand before the
\* try block of the handler
handle_change_task_status(project_id, id_text, status_text) ==
    IF project_id \notin DOMAIN projects
          \/ projects[project_id].tasks = <<>>
    THEN /\ NoRepositoryCall
         /\ display' = display_error("No tasks to change status.")
         /\ HandlerReturns
    ELSE IF IsNone(prompt_for_task_id(id_text))
    THEN handle_list_tasks(project_id)
    ELSE LET new_status_str == prompt_for_new_status(status_text)
         IN IF IsNone(new_status_str)
            THEN /\ NoRepositoryCall
                 /\ Propagates(ValueError, "Invalid status: None")
            ELSE IF Val(new_status_str) \notin {"todo", "doing", "done"}
            THEN /\ NoRepositoryCall
                 /\ Propagates(ValueError,
                               "Invalid status: " \o Val(new_status_str))
            ELSE /\ change_task_status(project_id,
                        Val(prompt_for_task_id(id_text)),
                        Val(new_status_str))
                 /\ display' =
                       IF ret'.exc = NoError
                       THEN display_success("Status of Task '"
                               \o ret_tasks'[1].title \o "' (ID: "
                               \o ToString(ret_tasks'[1].id)
                               \o ") changed to "
                               \o Upper(ret_tasks'[1].status) \o ".")
                       ELSE IF ret'.exc \in {ProjectNotFoundError,
                                             TaskNotFoundError,
                                             ValidationError}
                       THEN display_error(ret'.msg)
                       ELSE Unexpected("while changing task status")
                 /\ HandlerReturns

handle_delete_task(project_id, id_text) ==
    IF project_id \notin DOMAIN projects
          \/ projects[project_id].tasks = <<>>
    THEN /\ NoRepositoryCall
         /\ display' = display_error("No tasks to delete in this project.")
         /\ HandlerReturns
    ELSE IF IsNone(prompt_for_task_id(id_text))
    THEN handle_list_tasks(project_id)
    ELSE LET task_id == Val(prompt_for_task_id(id_text))
         IN /\ delete_task(project_id, task_id)
            /\ display' =
                  IF ret'.exc = NoError
                  THEN display_success("Task (ID: " \o ToString(task_id)
                          \o ") deleted successfully.")
                  ELSE IF ret'.exc \in {ProjectNotFoundError,
                                        TaskNotFoundError}
                  THEN display_error(ret'.msg)
                  ELSE Unexpected("during task deletion")
            /\ HandlerReturns

(* What the user types *)
ChoiceTexts == {"", "x", "1", "2", "3", "4", "5", "6", "7"}
IdTexts(max) == {"", "x"} \cup {Digits[i + 1] : i \in 0..max}
ProjectDataTexts == {<<"Alpha", "">>, <<"Beta", "d">>, <<Chars31, "">>}
\* title, description, status and deadline as typed
TaskDataTexts ==
    {<<"T", "D", "", <<>>>>,
     <<"T", "D", "Doing", Date20250101>>,
     <<"", "D", "", <<>>>>,
     <<"T", "D", "bogus", <<>>>>,
     <<Chars31, "D", "todo", <<>>>>,
     <<"", "", "", <<>>>>}
StatusTexts == {"", "DONE", "doing", "bogus"}

(* project_task_menu(project): one iteration of its loop per action *)

\* the task menu is shown and the user types the choice n
TaskMenuChoice(n) ==
    /\ pc = "task_menu"
    /\ \E text \in ChoiceTexts : prompt_for_task_menu_choice(text) = Some(n)

AddTaskChoice ==
    /\ TaskMenuChoice(1)
    /\ \E a \in TaskDataTexts :
          handle_add_task(menu_project,
                          prompt_for_task_data(a[1], a[2], a[3], a[4]))
    /\ UNCHANGED menu_project

ListTasksChoice ==
    /\ TaskMenuChoice(2)
    /\ handle_list_tasks(menu_project)
    /\ UNCHANGED menu_project

EditTaskChoice ==
    /\ TaskMenuChoice(3)
    /\ \E id_text \in IdTexts(MaxTaskId), a \in TaskDataTexts :
          handle_edit_task(menu_project, id_text,
                           prompt_for_task_data(a[1], a[2], a[3], a[4]))
    /\ UNCHANGED menu_project

ChangeTaskStatusChoice ==
    /\ TaskMenuChoice(4)
    /\ \E id_text \in IdTexts(MaxTaskId), status_text \in StatusTexts :
          handle_change_task_status(menu_project, id_text, status_text)
    /\ UNCHANGED menu_project

DeleteTaskChoice ==
    /\ TaskMenuChoice(5)
    /\ \E id_text \in IdTexts(MaxTaskId) :
          handle_delete_task(menu_project, id_text)
    /\ UNCHANGED menu_project

ReturnToMainMenuChoice ==
    /\ TaskMenuChoice(6)
    /\ pc' = "main_menu"
    /\ menu_project' = 0
    /\ NoRepositoryCall
    /\ UNCHANGED display

InvalidTaskMenuChoice ==
    /\ pc = "task_menu"
    /\ \E text \in ChoiceTexts :
          prompt_for_task_menu_choice(text) \notin {Some(n) : n \in 1..6}
    /\ display' = display_error(
          "Invalid choice. Please enter a number from 1 to 6.")
    /\ NoRepositoryCall
    /\ UNCHANGED <<pc, menu_project>>

project_task_menu ==
    \/ AddTaskChoice
    \/ ListTasksChoice
    \/ EditTaskChoice
    \/ ChangeTaskStatusChoice
    \/ DeleteTaskChoice
    \/ ReturnToMainMenuChoice
    \/ InvalidTaskMenuChoice

(* main_menu_loop(): one iteration of its loop per action *)

\* the main menu is shown and the user types the choice n
MainMenuChoice(n) ==
    /\ pc = "main_menu"
    /\ \E text \in ChoiceTexts : prompt_for_main_choice(text) = Some(n)

CreateProjectChoice ==
    /\ MainMenuChoice(1)
    /\ \E a \in ProjectDataTexts : handle_create_project(a[1], a[2])
    /\ UNCHANGED menu_project

ListProjectsChoice ==
    /\ MainMenuChoice(2)
    /\ handle_list_projects
    /\ UNCHANGED menu_project

\* choice 3, shown as "Edit Project": lists the projects, asks for an id
\* and enters project_task_menu with the project of this id
EditProjectChoice ==
    /\ MainMenuChoice(3)
    /\ IF DOMAIN projects = {}
       THEN /\ NoRepositoryCall
            /\ display' = display_error(
                  "No projects available to edit/view tasks.")
            /\ UNCHANGED <<pc, menu_project>>
       ELSE \E id_text \in IdTexts(MaxProjectId) :
               LET project_id == prompt_for_project_id(id_text)
               IN /\ list_all_projects
                  /\ IF IsNone(project_id) \/ Val(project_id) = 0
                     THEN /\ display' = display_projects_list(ret_projects')
                          /\ UNCHANGED <<pc, menu_project>>
                     ELSE IF Val(project_id) \in DOMAIN projects
                     THEN /\ pc' = "task_menu"
                          /\ menu_project' = Val(project_id)
                          /\ display' = display_projects_list(ret_projects')
                     ELSE /\ display' = display_error("Project with ID "
                                \o ToString(Val(project_id))
                                \o " not found.")
                          /\ UNCHANGED <<pc, menu_project>>

DeleteProjectChoice ==
    /\ MainMenuChoice(4)
    /\ \E id_text \in IdTexts(MaxProjectId) : handle_delete_project(id_text)
    /\ UNCHANGED menu_project

\* sys.exit(0)
ExitChoice ==
    /\ MainMenuChoice(5)
    /\ display' = display_exit_message
    /\ pc' = "exited"
    /\ NoRepositoryCall
    /\ UNCHANGED menu_project

InvalidMainMenuChoice ==
    /\ pc = "main_menu"
    /\ \E text \in ChoiceTexts :
          prompt_for_main_choice(text) \notin {Some(n) : n \in 1..5}
    /\ display' = display_error(
          "Invalid choice. Please enter a number from 1 to 5.")
    /\ NoRepositoryCall
    /\ UNCHANGED <<pc, menu_project>>

main_menu_loop ==
    \/ CreateProjectChoice
    \/ ListProjectsChoice
    \/ EditProjectChoice
    \/ DeleteProjectChoice
    \/ ExitChoice
    \/ InvalidMainMenuChoice

\* the user presses Ctrl-C at a prompt: the block at the end of main.py
\* prints the exit message and ends the process
KeyboardInterrupt ==
    /\ pc \in {"main_menu", "task_menu"}
    /\ display' = display_exit_message
    /\ pc' = "exited"
    /\ NoRepositoryCall
    /\ UNCHANGED menu_project

\* the program is started: REPO is a new repository, the main menu is shown
InitMenu ==
    /\ MAX_NUMBER_OF_PROJECT \in EnvMaxima
    /\ MAX_NUMBER_OF_TASK \in EnvMaxima
    /\ projects = <<>>
    /\ next_project_id = 1
    /\ next_task_id = 1
    /\ ret = NoCall
    /\ ret_projects = <<>>
    /\ ret_tasks = <<>>
    /\ issued_project_ids = <<>>
    /\ issued_task_ids = {}
    /\ pc = "main_menu"
    /\ menu_project = 0
    /\ display = NoDisplay

NextMenu ==
    \/ main_menu_loop
    \/ project_task_menu
    \/ KeyboardInterrupt

SpecMenu == InitMenu /\ [][NextMenu]_vars

----------------------------------------------------------------------------
(* Properties *)

\* the set of the elements of a list
Range(lst) == {lst[i] : i \in 1..Len(lst)}

\* the ids of the tasks of the projects of the dict d
TaskIdsOf(d) ==
    UNION {{d[p].tasks[i].id : i \in 1..Len(d[p].tasks)} : p \in DOMAIN d}
StoredTaskIds == TaskIdsOf(projects)

\* this step is a call of op
CallOf(op) == Idle /\ ret'.op = op
\* the call of this step returned / raised ValidationError(msg)
Returned == ret'.exc = NoError
Failed(msg) == ret'.exc = ValidationError /\ ret'.msg = msg
\* the last call was op and it returned / raised ValidationError(msg)
HasReturned(op) == ret.op = op /\ ret.exc = NoError
HasFailed(op, msg) ==
    ret.op = op /\ ret.exc = ValidationError /\ ret.msg = msg

\* C1: in every reachable state no two stored projects have the same name
C1_UniqueProjectNames ==
    \A p, q \in DOMAIN projects :
        p # q => projects[p].name # projects[q].name

\* a rename to the name of the other stored project has just been refused
C1_Witness ==
    /\ Cardinality(DOMAIN projects) = 2
    /\ \E n \in {"Alpha", Chars30} :
          HasFailed("edit_project", MsgProjectExists(n))

\* C2: every id assigned by a successful add_project is greater than every
\* project id assigned before, and every id assigned by a successful add_task
\* is greater than every task id assigned before in any project, deleted
\* projects and tasks included
C2_IdsNeverReused ==
    [][/\ (CallOf("add_project") /\ Returned) =>
            /\ \A i \in Range(issued_project_ids) : ret_projects'[1].id > i
            /\ ret_projects'[1].id \in DOMAIN projects'
            /\ projects'[ret_projects'[1].id] = ret_projects'[1]
       /\ (CallOf("add_task") /\ Returned) =>
            /\ \A i \in issued_task_ids : ret_tasks'[1].id > i
            /\ ret_tasks'[1].id \in TaskIdsOf(projects')
       /\ \A p \in DOMAIN projects' : projects'[p].id = p
       /\ DOMAIN projects' \subseteq Range(issued_project_ids')
       /\ TaskIdsOf(projects') \subseteq issued_task_ids'
       /\ Range(issued_project_ids) \subseteq Range(issued_project_ids')
       /\ issued_task_ids \subseteq issued_task_ids'
      ]_vars

\* a task has just been added after a project and a task were deleted
C2_Witness ==
    /\ HasReturned("add_task")
    /\ Range(issued_project_ids) \ DOMAIN projects # {}
    /\ issued_task_ids \ StoredTaskIds # {}
    /\ ret_tasks[1].id > 1

\* C3: every stored task id occurs at exactly one position of the task
\* sequence of exactly one project
C3_TaskIdOccursOnce ==
    \A p, q \in DOMAIN projects :
        \A i \in 1..Len(projects[p].tasks), j \in 1..Len(projects[q].tasks) :
            projects[p].tasks[i].id = projects[q].tasks[j].id
                => (p = q /\ i = j)

\* two projects hold a task each
C3_Witness ==
    \E p, q \in DOMAIN projects :
        /\ p # q
        /\ Len(projects[p].tasks) = 1
        /\ Len(projects[q].tasks) = 1

\* C4: the number of projects is at most the project maximum and the number
\* of tasks of every project is at most the task maximum
C4_CountsWithinMaxima ==
    /\ Cardinality(DOMAIN projects) <= MAX_NUMBER_OF_PROJECT
    /\ \A p \in DOMAIN projects :
          Len(projects[p].tasks) <= MAX_NUMBER_OF_TASK

\* both maxima are 2 and reached, and an add_task on the full project was
\* refused
C4_Witness ==
    /\ MAX_NUMBER_OF_PROJECT = 2
    /\ MAX_NUMBER_OF_TASK = 2
    /\ Cardinality(DOMAIN projects) = MAX_NUMBER_OF_PROJECT
    /\ \E p \in DOMAIN projects :
          Len(projects[p].tasks) = MAX_NUMBER_OF_TASK
    /\ HasFailed("add_task", MsgTaskLimit)

\* C5: with the number of projects at the maximum, add_project fails with
\* the limit message whatever its arguments, and the state is unchanged
C5_AddProjectAtLimit ==
    [][(CallOf("add_project")
           /\ Cardinality(DOMAIN projects) = MAX_NUMBER_OF_PROJECT)
          => \A a \in ProjectInputs :
                add_project(a[1], a[2])
                    => (Failed(MsgProjectLimit) /\ UNCHANGED repo)
      ]_vars

\* add_project has just been refused at the limit, a stored project holding
\* tasks
C5_Witness ==
    /\ HasFailed("add_project", MsgProjectLimit)
    /\ MAX_NUMBER_OF_PROJECT = 2
    /\ Cardinality(DOMAIN projects) = MAX_NUMBER_OF_PROJECT
    /\ StoredTaskIds # {}

\* C6: below the maximum, add_project with the name of a stored project
\* fails with the duplicate-name message and changes nothing
C6_AddProjectDuplicate ==
    [][(CallOf("add_project")
           /\ Cardinality(DOMAIN projects) < MAX_NUMBER_OF_PROJECT)
          => \A a \in ProjectInputs :
                (/\ \E p \in DOMAIN projects : projects[p].name = a[1]
                 /\ add_project(a[1], a[2]))
                => (Failed(MsgProjectExists(a[1])) /\ UNCHANGED repo)
      ]_vars

\* add_project has just been refused for the name of the only project
C6_Witness ==
    /\ Cardinality(DOMAIN projects) = 1
    /\ \E p \in DOMAIN projects :
          /\ HasFailed("add_project", MsgProjectExists(projects[p].name))
          /\ projects[p].tasks # <<>>

\* the ids of the tasks of project p
TaskIdsIn(p) == {projects[p].tasks[i].id : i \in 1..Len(projects[p].tasks)}

\* projects that were created and are no longer stored
DeletedProjectIds == Range(issued_project_ids) \ DOMAIN projects

C8_ChangeTaskStatusFrame ==
    [][(CallOf("change_task_status") /\ Returned) =>
       \A pid \in ProjectIdInputs, tid \in TaskIdInputs, st \in StatusInputs :
          change_task_status(pid, tid, st)
          => LET old == projects[pid].tasks
                 new == projects'[pid].tasks
                 i == FindTask(old, tid)
             IN /\ DOMAIN projects' = DOMAIN projects
                /\ \A q \in DOMAIN projects \ {pid} :
                      projects'[q] = projects[q]
                /\ projects'[pid].id = projects[pid].id
                /\ projects'[pid].name = projects[pid].name
                /\ projects'[pid].description = projects[pid].description
                /\ Len(new) = Len(old)
                /\ \A j \in 1..Len(old) : j # i => new[j] = old[j]
                /\ old[i].id = tid
                /\ new[i].status = st
                /\ new[i].id = old[i].id
                /\ new[i].title = old[i].title
                /\ new[i].description = old[i].description
                /\ new[i].deadline = old[i].deadline
                /\ UNCHANGED <<next_project_id, next_task_id>>
      ]_vars

\* the status of the second task of a project, a task with a deadline, has
\* just been changed
C8_Witness ==
    /\ HasReturned("change_task_status")
    /\ ret_tasks[1].status = "done"
    /\ ret_tasks[1].deadline # <<>>
    /\ \E p \in DOMAIN projects :
          Len(projects[p].tasks) = 2 /\ projects[p].tasks[2] = ret_tasks[1]

\* C9: edit_project on a stored project with a name and a description of
\* valid length fails with the duplicate-name message exactly when another
\* project has the name; with the project's own name it succeeds and the
\* description becomes the new one
C9_EditProjectDuplicate ==
    [][CallOf("edit_project") =>
       \A pid \in ProjectIdInputs, a \in ProjectInputs :
          (/\ pid \in DOMAIN projects
           /\ Len(a[1]) <= MAX_PROJECT_NAME
           /\ Len(a[2]) <= MAX_PROJECT_DESC
           /\ edit_project(pid, a[1], a[2]))
          => /\ Failed(MsgProjectExists(a[1]))
                   <=> (\E q \in DOMAIN projects \ {pid} :
                            projects[q].name = a[1])
             /\ ~Returned => Failed(MsgProjectExists(a[1]))
             /\ a[1] = projects[pid].name
                   => /\ Returned
                      /\ projects'[pid].name = a[1]
                      /\ projects'[pid].description = a[2]
      ]_vars

\* a project named Alpha, the other project being named otherwise, has just
\* been edited and is still named Alpha
C9_Witness ==
    /\ HasReturned("edit_project")
    /\ ret_projects[1].name = "Alpha"
    /\ ret_projects[1].description = Chars150
    /\ \E q \in DOMAIN projects : projects[q].name = Chars30

IsStored(id) == id \in DOMAIN projects

\* C10: list_projects (and list_all_projects) never fails and changes
\* nothing; it returns the stored projects, each once, in strictly ascending
\* order of id, which is the order of their creation
C10_ListProjects ==
    [][(CallOf("list_projects") \/ CallOf("list_all_projects"))
          => /\ Returned
             /\ UNCHANGED repo
             /\ Len(ret_projects') = Cardinality(DOMAIN projects)
             /\ Range(ret_projects') = Values(projects)
             /\ \A i, j \in 1..Len(ret_projects') :
                   i < j => ret_projects'[i].id < ret_projects'[j].id
             /\ [i \in 1..Len(ret_projects') |-> ret_projects'[i].id]
                   = SelectSeq(issued_project_ids, IsStored)
             /\ projects = <<>> => ret_projects' = <<>>
      ]_vars

\* list_projects has just returned two projects, the first created of which
\* comes second in the order of the names
C10_Witness ==
    /\ HasReturned("list_projects")
    /\ Len(ret_projects) = 2
    /\ ret_projects[1].name = "Alpha"
    /\ ret_projects[2].name = Chars30

\* the task holds the values that the arguments a = (title, description,
\* status, deadline) supply, the deadline as the date the text stands for
StoredAs(task, a) ==
    /\ task.title = Val(a[1])
    /\ task.description = Val(a[2])
    /\ task.status = a[3]
    /\ task.deadline = TaskDeadline(a[4])

\* C11: edit_task is idempotent with respect to add_task. The state right
\* after a successful add_task of (title, description, status, deadline)
\* holds the new task with these values; a successful edit_task with the
\* four values that the task already holds leaves the repository as it is
\* (so add_task followed by edit_task of the new task with the identical
\* values gives the state right after add_task); and a successful edit_task
\* leaves the task holding its four values, so that the same edit_task
\* applied once more changes nothing
C11_EditTaskIdempotent ==
    [][/\ (CallOf("add_task") /\ Returned) =>
            \A pid \in ProjectIdInputs, a \in TaskInputs :
               add_task(pid, a[1], a[2], a[3], a[4])
               => LET new == projects'[pid].tasks
                  IN /\ new[Len(new)].id = next_task_id
                     /\ StoredAs(new[Len(new)], a)
       /\ (CallOf("edit_task") /\ Returned) =>
            \A pid \in ProjectIdInputs, tid \in TaskIdInputs,
               a \in TaskInputs :
               edit_task(pid, tid, a[1], a[2], a[3], a[4])
               => LET i == FindTask(projects[pid].tasks, tid)
                  IN /\ StoredAs(projects'[pid].tasks[i], a)
                     /\ FindTask(projects'[pid].tasks, tid) = i
                     /\ StoredAs(projects[pid].tasks[i], a)
                           => UNCHANGED repo
      ]_vars

\* edit_task has just returned a task with a deadline, two tasks having
\* been added
C11_Witness ==
    /\ HasReturned("edit_task")
    /\ ret_tasks[1].status = "doing"
    /\ ret_tasks[1].deadline = <<[year |-> 2025, month |-> 1, day |-> 1]>>
    /\ issued_task_ids = {1, 2}

\* C12: a successful edit_task is a full replace: the title, description,
\* status and deadline of the task become the supplied values, a deadline
\* that is omitted (None) or empty leaving the task without a deadline
\* whatever deadline it had; the id of the task, its position in the list
\* of the project and the other tasks of the list are unchanged
C12_EditTaskFullReplace ==
    [][(CallOf("edit_task") /\ Returned) =>
          \A pid \in ProjectIdInputs, tid \in TaskIdInputs, a \in TaskInputs :
             edit_task(pid, tid, a[1], a[2], a[3], a[4])
             => LET old == projects[pid].tasks
                    new == projects'[pid].tasks
                    i == FindTask(old, tid)
                IN /\ i > 0
                   /\ Len(new) = Len(old)
                   /\ new[i].id = tid
                   /\ new[i].title = Val(a[1])
                   /\ new[i].description = Val(a[2])
                   /\ new[i].status = a[3]
                   /\ a[4] \in {None, Some(<<>>)} => new[i].deadline = <<>>
                   /\ a[4] \in {Some(Date20250101), Some(Date202511)}
                         => new[i].deadline =
                               <<[year |-> 2025, month |-> 1, day |-> 1]>>
                   /\ \A j \in 1..Len(old) : j # i => new[j] = old[j]
                   /\ ret_tasks' = <<new[i]>>
      ]_vars

\* edit_task has just returned the second task of a project without a
\* deadline, the first task of the project having one
C12_Witness ==
    /\ HasReturned("edit_task")
    /\ ret_tasks[1].deadline = <<>>
    /\ ret_tasks[1].title = "T"
    /\ \E p \in DOMAIN projects :
          /\ Len(projects[p].tasks) = 2
          /\ projects[p].tasks[2] = ret_tasks[1]
          /\ projects[p].tasks[1].deadline # <<>>

\* C13: round trip of add_task and list_tasks.  A successful add_task on a
\* project with n tasks (n = 0 included) leaves the project with n + 1
\* tasks, the n it had followed by the new task, whose title, description
\* and status are the supplied values and whose deadline is the supplied
\* date (status todo and no deadline when these arguments are omitted); and
\* list_tasks of an existing project returns exactly the list of the
\* project and changes nothing
C13_AddTaskListTasks ==
    [][/\ (CallOf("add_task") /\ Returned) =>
            \A pid \in ProjectIdInputs, a \in TaskInputs :
               add_task(pid, a[1], a[2], a[3], a[4])
               => LET old == projects[pid].tasks
                      new == projects'[pid].tasks
                      task == new[Len(new)]
                  IN /\ Len(new) = Len(old) + 1
                     /\ SubSeq(new, 1, Len(old)) = old
                     /\ task.title = Val(a[1])
                     /\ task.description = Val(a[2])
                     /\ task.status = a[3]
                     /\ a[4] \in {None, Some(<<>>)} => task.deadline = <<>>
                     /\ a[4] \in {Some(Date20250101), Some(Date202511)}
                           => task.deadline =
                                 <<[year |-> 2025, month |-> 1, day |-> 1]>>
                     /\ add_task_omitted(pid, a[1], a[2])
                           => /\ task.status = "todo"
                              /\ task.deadline = <<>>
       /\ CallOf("list_tasks") =>
            \A pid \in DOMAIN projects :
               list_tasks(pid)
               => /\ Returned
                  /\ ret_tasks' = projects[pid].tasks
                  /\ UNCHANGED repo
      ]_vars

\* list_tasks has just returned two tasks: the one added first without
\* status and deadline, then the one added with a deadline
C13_Witness ==
    /\ HasReturned("list_tasks")
    /\ Len(ret_tasks) = 2
    /\ ret_tasks[1].id = 1
    /\ ret_tasks[1].status = "todo"
    /\ ret_tasks[1].deadline = <<>>
    /\ ret_tasks[2].id = 2
    /\ ret_tasks[2].title = Chars30
    /\ ret_tasks[2].deadline = <<[year |-> 2025, month |-> 1, day |-> 1]>>

\* the outcome of this step is the one the length limits of a task ask
\* for, the arguments of the call being a (a title that is not None)
TaskLengthOutcome(a) ==
    /\ Len(Val(a[1])) = 31 => Failed(MsgTaskTitleLen)
    /\ Len(Val(a[1])) <= 30 => ~Failed(MsgTaskTitleLen)
    /\ (Len(Val(a[1])) <= 30 /\ Len(Val(a[2])) = 151)
          => Failed(MsgTaskDescLen)
    /\ Len(Val(a[2])) <= 150 => ~Failed(MsgTaskDescLen)

\* the same for the name and description a of a project
ProjectLengthOutcome(a) ==
    /\ Len(a[1]) = 31 => Failed(MsgProjectNameLen)
    /\ Len(a[1]) <= 30 => ~Failed(MsgProjectNameLen)
    /\ (Len(a[1]) <= 30 /\ Len(a[2]) = 151) => Failed(MsgProjectDescLen)
    /\ Len(a[2]) <= 150 => ~Failed(MsgProjectDescLen)

\* C14: the length limits are inclusive.  When the checks that come before
\* the length checks pass, add_task and edit_task reject a title of 31
\* characters with the message naming the limit of 30 and a description of
\* 151 characters with the message naming the limit of 150, and do not
\* reject a title of 30 or a description of 150 characters for its length
\* (add_task returns for them when status and deadline are valid);
\* add_project and edit_project do the same with the name and the
\* description of the project and return for 30 and 150 characters.  Each case reads: the outcome is the one asked for, or the step
\* is not this call
C14_LengthLimitsInclusive ==
    [][/\ CallOf("add_task") =>
            \A a \in TaskInputs :
               \/ IsNone(a[1])
               \/ /\ TaskLengthOutcome(a)
                  /\ (/\ Len(Val(a[1])) = 30
                      /\ Len(Val(a[2])) = 150
                      /\ a[3] = "doing"
                      /\ a[4] = Some(Date20250101)) => Returned
               \/ \A pid \in DOMAIN projects :
                     ~(/\ Len(projects[pid].tasks) < MAX_NUMBER_OF_TASK
                       /\ add_task(pid, a[1], a[2], a[3], a[4]))
       /\ CallOf("edit_task") =>
            \A a \in TaskInputs :
               \/ IsNone(a[1])
               \/ TaskLengthOutcome(a)
               \/ \A pid \in DOMAIN projects :
                  \A tid \in TaskIdsIn(pid) \cap TaskIdInputs :
                     ~edit_task(pid, tid, a[1], a[2], a[3], a[4])
       /\ CallOf("add_project") =>
            \A a \in ProjectInputs :
               \/ /\ ProjectLengthOutcome(a)
                  /\ (Len(a[1]) <= 30 /\ Len(a[2]) <= 150) => Returned
               \/ ~(/\ Cardinality(DOMAIN projects) < MAX_NUMBER_OF_PROJECT
                    /\ \A q \in DOMAIN projects : projects[q].name # a[1]
                    /\ add_project(a[1], a[2]))
       /\ CallOf("edit_project") =>
            \A pid \in DOMAIN projects, a \in ProjectInputs :
               \/ /\ ProjectLengthOutcome(a)
                  /\ (/\ Len(a[1]) <= 30
                      /\ Len(a[2]) <= 150
                      /\ \A q \in DOMAIN projects \ {pid} :
                            projects[q].name # a[1]) => Returned
               \/ ~edit_project(pid, a[1], a[2])
      ]_vars

\* a title of 31 characters has just been refused for a project that holds
\* a task with a title of 30 and a description of 150 characters and that
\* has itself a name of 30 characters
C14_Witness ==
    /\ HasFailed("edit_task", MsgTaskTitleLen)
    /\ \E p \in DOMAIN projects :
          /\ Len(projects[p].name) = 30
          /\ \E i \in 1..Len(projects[p].tasks) :
                /\ Len(projects[p].tasks[i].title) = 30
                /\ Len(projects[p].tasks[i].description) = 150

\* C15: the repository raises nothing outside the declared taxonomy: every
\* call, with every argument the presentation layer can pass (a title or
\* description that is None included), either returns or raises
\* ValidationError
C15_OnlyValidationError ==
    ret.exc \in {NoError, ValidationError}

\* C18: a call that fails with ValidationError leaves the whole repository
\* state as it was: the dict of the projects with the name, description and
\* tasks of each project and the fields of each task, and both id counters
C18_FailureChangesNothing ==
    [][(Idle /\ ret'.exc = ValidationError)
          => /\ projects' = projects
             /\ next_project_id' = next_project_id
             /\ next_task_id' = next_task_id
      ]_vars

\* add_task has just refused a deadline that is not a date, for a
\* repository that holds a project with a task
C18_Witness ==
    /\ HasFailed("add_task", MsgDeadlineFormat)
    /\ \E p \in DOMAIN projects : Len(projects[p].tasks) = 1
    /\ next_task_id = 2

\* C19: the lookup of a task is scoped to the given project: edit_task,
\* delete_task and change_task_status called with a stored project p and a
\* task id that is not in the list of p (an id held by another project q,
\* an id that was deleted or one never assigned) fail with "Task not
\* found." and leave every project, p and q included, as it was
C19_TaskLookupScoped ==
    [][/\ CallOf("edit_task") =>
            \A pid \in DOMAIN projects, a \in TaskInputs :
            \A tid \in TaskIdInputs \ TaskIdsIn(pid) :
               edit_task(pid, tid, a[1], a[2], a[3], a[4])
               => Failed(MsgTaskNotFound) /\ UNCHANGED repo
       /\ CallOf("delete_task") =>
            \A pid \in DOMAIN projects :
            \A tid \in TaskIdInputs \ TaskIdsIn(pid) :
               delete_task(pid, tid)
               => Failed(MsgTaskNotFound) /\ UNCHANGED repo
       /\ CallOf("change_task_status") =>
            \A pid \in DOMAIN projects, st \in StatusInputs :
            \A tid \in TaskIdInputs \ TaskIdsIn(pid) :
               change_task_status(pid, tid, st)
               => Failed(MsgTaskNotFound) /\ UNCHANGED repo
      ]_vars

\* delete_task has just failed with "Task not found." while two projects
\* are stored, one holding task 1 and the other task 2: each id the call
\* can have named belongs to the project the call did not name
C19_Witness ==
    /\ HasFailed("delete_task", MsgTaskNotFound)
    /\ DOMAIN projects = {1, 2}
    /\ \E p, q \in {1, 2} :
          /\ p # q
          /\ TaskIdsIn(p) = {1}
          /\ TaskIdsIn(q) = {2}

\* the ids of the tasks of a list, in the order of the list
IdsOf(tasks) == [i \in 1..Len(tasks) |-> tasks[i].id]

\* the ids of a list of tasks are in strictly ascending order
AscendingIds(tasks) ==
    \A i, j \in 1..Len(tasks) : i < j => tasks[i].id < tasks[j].id

\* C20: list_tasks of a stored project returns exactly the tasks added to
\* the project and not yet deleted, in the order they were added, which is
\* the strictly ascending order of their ids.  A project is created with no
\* task; the list of a stored project changes only by a successful
\* add_task, which puts the task with the fresh id at its end, by a
\* successful delete_task, which removes exactly the task with the given id
\* and keeps the others in their order, and by a successful edit_task or
\* change_task_status, which keep the ids and their order; and list_tasks
\* returns the list as it is stored
C20_ListTasksOrder ==
    [][/\ \A pid \in DOMAIN projects' :
             /\ AscendingIds(projects'[pid].tasks)
             /\ pid \notin DOMAIN projects => projects'[pid].tasks = <<>>
       /\ \A pid \in DOMAIN projects \cap DOMAIN projects' :
             LET old == projects[pid].tasks
                 new == projects'[pid].tasks
             IN \/ new = old
                \/ /\ CallOf("add_task") /\ Returned
                   /\ new = Append(old, ret_tasks'[1])
                   /\ ret_tasks'[1].id = next_task_id
                   /\ \A i \in 1..Len(old) : old[i].id < next_task_id
                \/ /\ CallOf("delete_task") /\ Returned
                   /\ Len(new) = Len(old) - 1
                   /\ \E tid \in TaskIdsIn(pid) :
                         LET Kept(t) == t.id # tid
                         IN new = SelectSeq(old, Kept)
                \/ /\ (CallOf("edit_task") \/ CallOf("change_task_status"))
                   /\ Returned
                   /\ IdsOf(new) = IdsOf(old)
       /\ (CallOf("delete_task") /\ Returned) =>
            \A pid \in ProjectIdInputs, tid \in TaskIdInputs :
               delete_task(pid, tid)
               => LET Kept(t) == t.id # tid
                  IN /\ tid \in TaskIdsIn(pid)
                     /\ projects'[pid].tasks
                           = SelectSeq(projects[pid].tasks, Kept)
       /\ CallOf("list_tasks") =>
            \A pid \in DOMAIN projects :
               list_tasks(pid)
               => /\ ret_tasks' = projects[pid].tasks
                  /\ AscendingIds(ret_tasks')
                  /\ Range(IdsOf(ret_tasks')) \subseteq issued_task_ids
      ]_vars

\* delete_task has just removed task 2 from the only project ever created,
\* which held tasks 1, 2 and 3 and is left with task 1 followed by task 3,
\* task 1 having been edited
C20_Witness ==
    /\ HasReturned("delete_task")
    /\ issued_project_ids = <<1>>
    /\ issued_task_ids = {1, 2, 3}
    /\ 1 \in DOMAIN projects
    /\ IdsOf(projects[1].tasks) = <<1, 3>>
    /\ projects[1].tasks[1].title = Chars30

\* C16: the interactive menu loop is never terminated by an error: whatever
\* the user types at the prompts, the program is at the main menu or at the
\* task menu of a project, or it has ended through the Exit choice or a
\* keyboard interrupt, which print the exit message; no exception leaves
\* main_menu_loop
C16_MenuLoopNeverCrashes ==
    /\ pc \in {"main_menu", "task_menu", "exited"}
    /\ pc = "exited" => display = display_exit_message

\* the repository operations that the handlers of the menus are to invoke:
\* those of the main menu and those of the task menu of a project
MainMenuOperations ==
    {"add_project", "list_all_projects", "edit_project", "delete_project"}
TaskMenuOperations == {"add_task", "list_tasks"}
StoredTaskOperations == {"edit_task", "delete_task"}

\* C17: the menus offer the operation set of the repository.  At the main
\* menu, once a project is stored, there is for each of create project,
\* list projects, edit project and delete project a choice (with what is
\* typed at its prompts) that invokes the repository operation, and a
\* choice that opens the task menu of the project; at the task menu there
\* is for each of add task and list tasks and, once the project holds a
\* task, for each of edit task and delete task a choice that invokes the
\* repository operation
C17_MenuOffersEveryOperation ==
    /\ (pc = "main_menu" /\ DOMAIN projects # {})
          => /\ \A op \in MainMenuOperations :
                   ENABLED (NextMenu /\ ret'.op = op)
             /\ ENABLED (NextMenu /\ pc' = "task_menu")
    /\ pc = "task_menu"
          => \A op \in TaskMenuOperations :
                ENABLED (NextMenu /\ ret'.op = op)
    /\ (pc = "task_menu" /\ projects[menu_project].tasks # <<>>)
          => \A op \in StoredTaskOperations :
                ENABLED (NextMenu /\ ret'.op = op)

\* no step of the menus invokes edit_project or list_tasks
MenuNeverInvokes ==
    ret.op \notin {"edit_project", "list_tasks", "list_projects"}

\* C21: every stored project has a name of at most 30 characters and a
\* description of at most 150 characters, and every stored task has a title
\* of at most 30 characters, a description of at most 150 characters and a
\* status that is one of todo, doing, done
C21_StoredValuesWithinLimits ==
    \A pid \in DOMAIN projects :
       /\ Len(projects[pid].name) <= 30
       /\ Len(projects[pid].description) <= 150
       /\ \A i \in 1..Len(projects[pid].tasks) :
             LET task == projects[pid].tasks[i]
             IN /\ Len(task.title) <= 30
                /\ Len(task.description) <= 150
                /\ task.status \in {"todo", "doing", "done"}

\* change_task_status has just been refused for the status "TODO" on a task
\* that holds a title of 30 and a description of 150 characters, in a
\* project whose name has 30 characters
C21_Witness ==
    /\ HasFailed("change_task_status", MsgInvalidStatus("TODO"))
    /\ \E pid \in DOMAIN projects :
          /\ Len(projects[pid].name) = 30
          /\ \E i \in 1..Len(projects[pid].tasks) :
                /\ Len(projects[pid].tasks[i].title) = 30
                /\ Len(projects[pid].tasks[i].description) = 150

\* C22: a successful edit_project(pid, name, description) changes only the
\* name and the description of that project, which become the ones passed:
\* its id, its task sequence with every task in it, every other project,
\* the set of stored projects and both id counters are unchanged
C22_EditProjectFrame ==
    [][(CallOf("edit_project") /\ Returned) =>
       \A pid \in ProjectIdInputs, a \in ProjectInputs :
          edit_project(pid, a[1], a[2])
          => /\ DOMAIN projects' = DOMAIN projects
             /\ \A q \in DOMAIN projects \ {pid} : projects'[q] = projects[q]
             /\ projects'[pid].id = projects[pid].id
             /\ projects'[pid].tasks = projects[pid].tasks
             /\ projects'[pid].name = a[1]
             /\ projects'[pid].description = a[2]
             /\ UNCHANGED <<next_project_id, next_task_id>>
      ]_vars

\* edit_project has just returned for a project that holds a task, with a
\* description of 150 characters, while another project is stored
C22_Witness ==
    /\ HasReturned("edit_project")
    /\ Cardinality(DOMAIN projects) = 2
    /\ ret_projects[1].description = Chars150
    /\ ret_projects[1].tasks # <<>>
    /\ projects[ret_projects[1].id] = ret_projects[1]

\* C23: whenever a repository operation invoked by a handler of the menus
\* fails with ValidationError, what the handler shows is that error's own
\* message, not the text for an unexpected error
C23_ValidationErrorMessageShown ==
    ret.exc = ValidationError => display = display_error(ret.msg)

\* the handlers whose except clauses name ValidationError show the message
\* of every ValidationError of their repository operation
ValidationErrorShownWhereCaught ==
    (ret.exc = ValidationError /\ ret.op \notin {"delete_project", "delete_task"})
       => display = display_error(ret.msg)

\* handle_add_task has just shown the message of a ValidationError of
\* add_task for a status that is not valid
AddTaskInvalidStatusShown ==
    /\ ret.op = "add_task"
    /\ ret.exc = ValidationError
    /\ ret.msg = MsgInvalidStatus("bogus")
    /\ display = display_error(ret.msg)

====
